---- MODULE Spec2Model ----
(***************************************************************************)
(* Model of src/server.py (class HTTPServer): the accept loop and the      *)
(* thread-pool dispatcher (start, handle_client_wrapper), the              *)
(* per-connection session loop (handle_client) and the pure helpers it     *)
(* calls (parse_request, validate_host, should_keep_alive, validate_path,  *)
(* handle_get, send_error, send_response).                                 *)
(*                                                                         *)
(* Text is modelled as a sequence of one-character strings so that split,  *)
(* strip, lower, join and the f-string formatting are computed, not        *)
(* assumed.                                                                *)
(***************************************************************************)
EXTENDS Integers, Sequences, FiniteSets, TLC

(***************************************************************************)
(* Python str primitives                                                   *)
(***************************************************************************)

\* the value Python's None is modelled by
None == <<"None">>

CRLF == <<"\r", "\n">>

\* s.startswith(p)
startswith(s, p) ==
    /\ Len(p) <= Len(s)
    /\ SubSeq(s, 1, Len(p)) = p

\* s.find(sep) + 1: the 1-based position of the first occurrence, 0 if none
find(s, sep) ==
    LET hits == {i \in 1..(Len(s) - Len(sep) + 1) : SubSeq(s, i, i + Len(sep) - 1) = sep}
    IN  IF hits = {} THEN 0 ELSE CHOOSE i \in hits : \A j \in hits : i <= j

\* s.rfind(ch) + 1: the 1-based position of the last occurrence, 0 if none
rfind(s, sep) ==
    LET hits == {i \in 1..(Len(s) - Len(sep) + 1) : SubSeq(s, i, i + Len(sep) - 1) = sep}
    IN  IF hits = {} THEN 0 ELSE CHOOSE i \in hits : \A j \in hits : i >= j

\* sep in s
contains(s, sep) == find(s, sep) # 0

\* s.split(sep), given the position i of the first occurrence of sep
RECURSIVE splitAt(_, _, _)
splitAt(s, sep, i) ==
    IF i = 0 THEN <<s>>
    ELSE <<SubSeq(s, 1, i - 1)>>
         \o splitAt(SubSeq(s, i + Len(sep), Len(s)), sep,
                    find(SubSeq(s, i + Len(sep), Len(s)), sep))

\* s.split(sep): every occurrence of sep cuts
split(s, sep) == splitAt(s, sep, find(s, sep))

\* s.split(sep, 1), given the position i of the first occurrence of sep
split1At(s, sep, i) ==
    IF i = 0 THEN <<s>>
    ELSE <<SubSeq(s, 1, i - 1), SubSeq(s, i + Len(sep), Len(s))>>

\* s.split(sep, 1): only the first occurrence of sep cuts
split1(s, sep) == split1At(s, sep, find(s, sep))

\* sep.join(parts)
RECURSIVE join(_, _)
join(sep, parts) ==
    IF Len(parts) = 0 THEN <<>>
    ELSE IF Len(parts) = 1 THEN parts[1]
    ELSE parts[1] \o sep \o join(sep, Tail(parts))

\* the characters str.strip() removes
Whitespace == {" ", "\t", "\r", "\n", "\f"}

\* s.strip()
strip(s) ==
    LET keep == {i \in 1..Len(s) : s[i] \notin Whitespace}
    IN  IF keep = {} THEN <<>>
        ELSE SubSeq(s, CHOOSE i \in keep : \A j \in keep : i <= j,
                       CHOOSE i \in keep : \A j \in keep : i >= j)

UpperCase == <<"A","B","C","D","E","F","G","H","I","J","K","L","M",
               "N","O","P","Q","R","S","T","U","V","W","X","Y","Z">>
LowerCase == <<"a","b","c","d","e","f","g","h","i","j","k","l","m",
               "n","o","p","q","r","s","t","u","v","w","x","y","z">>

\* one character of s.lower()
lowerChar(ch) ==
    IF \E i \in 1..26 : UpperCase[i] = ch
    THEN LowerCase[CHOOSE i \in 1..26 : UpperCase[i] = ch]
    ELSE ch

\* s.lower()
lower(s) == [i \in 1..Len(s) |-> lowerChar(s[i])]

Digits == <<"0","1","2","3","4","5","6","7","8","9">>

\* str(n) for n >= 0, as the f-strings and str(len(...)) format it
RECURSIVE str(_)
str(n) ==
    IF n < 10 THEN <<Digits[n + 1]>>
    ELSE str(n \div 10) \o <<Digits[(n % 10) + 1]>>

\* headers[key] = value on a dict (a later duplicate overwrites)
dictSet(d, key, value) ==
    [k \in (DOMAIN d) \cup {key} |-> IF k = key THEN value ELSE d[k]]

\* headers.get(key, default)
dictGet(d, key, default) == IF key \in DOMAIN d THEN d[key] ELSE default

\* {} : the empty dict
EmptyDict == [k \in {} |-> <<>>]

(***************************************************************************)
(* Request Parser, keep-alive policy, Host validation                      *)
(***************************************************************************)

\* the header loop of parse_request: lines[i..] are scanned from index i
\* (1-based; Python's index is i - 1); returns <<headers, body_start>>
\* with body_start the Python index of the first body line, 0 if no blank
\* line was met
RECURSIVE parseHeaders(_, _, _)
parseHeaders(lines, i, headers) ==
    IF i > Len(lines) THEN <<headers, 0>>
    ELSE IF lines[i] = <<>> THEN <<headers, i>>
    ELSE IF contains(lines[i], <<":">>)
         THEN LET kv == split1(lines[i], <<":">>)
              IN  parseHeaders(lines, i + 1,
                               dictSet(headers, lower(strip(kv[1])), strip(kv[2])))
         ELSE parseHeaders(lines, i + 1, headers)

\* lines 252-255: the body and the returned tuple, given the request line's
\* parts and the header loop's <<headers, body_start>>
parsedTuple(lines, parts, hb) ==
    << parts[1], parts[2], parts[3], hb[1],
       IF hb[2] > 0 THEN join(CRLF, SubSeq(lines, hb[2] + 1, Len(lines))) ELSE <<>> >>

\* the request line accepted with three parts or more
parseLines_at_least_three(lines, parts) ==
    IF Len(parts) < 3 THEN None
    ELSE parsedTuple(lines, parts, parseHeaders(lines, 2, EmptyDict))

\* lines 231-250: the request line must split into three parts
parseLines(lines, parts) ==
    IF Len(parts) # 3 THEN None
    ELSE parsedTuple(lines, parts, parseHeaders(lines, 2, EmptyDict))

\* lines 228-232
splitLines(lines) == parseLines(lines, split(lines[1], <<" ">>))

\* parse_request(request_text): None, or <<method, path, version, headers, body>>
parse_request(request_text) == splitLines(split(request_text, CRLF))

\* the literals the code compares against
HTTP11 == <<"H","T","T","P","/","1",".","1">>
kClose == <<"c","l","o","s","e">>
kKeepAlive == <<"k","e","e","p","-","a","l","i","v","e">>
kConnection == <<"c","o","n","n","e","c","t","i","o","n">>
kHost == <<"h","o","s","t">>
kLocalhost == <<"l","o","c","a","l","h","o","s","t">>
kLoopback == <<"1","2","7",".","0",".","0",".","1">>
kGET == <<"G","E","T">>
kPOST == <<"P","O","S","T">>

\* the decision made on the header value as it was sent
should_keep_alive_case_sensitive(version, headers) ==
    IF version = HTTP11
    THEN dictGet(headers, kConnection, <<>>) # kClose
    ELSE dictGet(headers, kConnection, <<>>) = kKeepAlive

\* should_keep_alive(version, headers)
should_keep_alive(version, headers) ==
    LET connection_header == lower(dictGet(headers, kConnection, <<>>))
    IN  IF version = HTTP11
        THEN connection_header # kClose
        ELSE connection_header = kKeepAlive

\* lines 290-291: the bare host names are valid too on port 80
extendForPort80(base, host, port) ==
    IF port = 80 THEN base \o <<host, kLocalhost, kLoopback>> ELSE base

\* the list valid_hosts that validate_host builds for a server (host, port)
valid_hosts(host, port) ==
    extendForPort80(<< host \o <<":">> \o str(port),
                       kLocalhost \o <<":">> \o str(port),
                       kLoopback \o <<":">> \o str(port) >>,
                    host, port)

\* host_header in valid_hosts
inList(item, list) == \E i \in DOMAIN list : list[i] = item

\* validate_host(headers) of a server bound to (host, port)
validate_host(headers, host, port) ==
    IF kHost \notin DOMAIN headers THEN FALSE
    ELSE inList(headers[kHost], valid_hosts(host, port))

(***************************************************************************)
(* Path Resolver and the file system it looks at                           *)
(***************************************************************************)

\* self.resources_dir
resources_dir == <<"r","e","s","o","u","r","c","e","s">>

\* the working directory of the server process (what os.path.abspath
\* resolves relative paths against)
Cwd == <<"/","s","r","v">>

\* os.path.join(a, b)
os_path_join(a, b) ==
    IF startswith(b, <<"/">>) THEN b
    ELSE IF a = <<>> \/ a[Len(a)] = "/" THEN a \o b
    ELSE a \o <<"/">> \o b

\* the component loop of posixpath.normpath
RECURSIVE normComps(_, _, _, _)
normComps(comps, i, new_comps, initial_slashes) ==
    IF i > Len(comps) THEN new_comps
    ELSE LET comp == comps[i]
         IN  IF comp = <<>> \/ comp = <<".">>
             THEN normComps(comps, i + 1, new_comps, initial_slashes)
             ELSE IF \/ comp # <<".", ".">>
                     \/ (initial_slashes = 0 /\ Len(new_comps) = 0)
                     \/ (Len(new_comps) > 0 /\ new_comps[Len(new_comps)] = <<".", ".">>)
             THEN normComps(comps, i + 1, Append(new_comps, comp), initial_slashes)
             ELSE IF Len(new_comps) > 0
             THEN normComps(comps, i + 1, SubSeq(new_comps, 1, Len(new_comps) - 1),
                            initial_slashes)
             ELSE normComps(comps, i + 1, new_comps, initial_slashes)

\* the end of posixpath.normpath: join the components behind the slashes
normJoin(initial_slashes, joined) ==
    IF initial_slashes = 0 /\ joined = <<>> THEN <<".">>
    ELSE [i \in 1..initial_slashes |-> "/"] \o joined

\* posixpath.normpath, given the number of leading slashes it keeps
normWith(path, initial_slashes) ==
    normJoin(initial_slashes,
             join(<<"/">>, normComps(split(path, <<"/">>), 1, <<>>, initial_slashes)))

\* posixpath.normpath(path)
normpath(path) ==
    IF path = <<>> THEN <<".">>
    ELSE normWith(path,
                  IF ~startswith(path, <<"/">>) THEN 0
                  ELSE IF startswith(path, <<"/", "/">>)
                          /\ ~startswith(path, <<"/", "/", "/">>)
                  THEN 2 ELSE 1)

\* os.path.abspath(path)
abspath(path) ==
    IF startswith(path, <<"/">>) THEN normpath(path)
    ELSE normpath(os_path_join(Cwd, path))

\* lines 322-326: the canonical path must start with the canonical
\* resources directory
confine(full_path, resources_path) ==
    IF ~startswith(full_path, resources_path) THEN None ELSE full_path

\* lines 311-320: strip one leading slash, join, canonicalize
canonicalize(path) ==
    confine(abspath(os_path_join(resources_dir,
                                 IF startswith(path, <<"/">>) THEN Tail(path) ELSE path)),
            abspath(resources_dir))

\* lines 303-308 without the '..' test: only the '//' prefix is refused
checkTraversal_without_dotdot(path) ==
    IF startswith(path, <<"/", "/">>) THEN None
    ELSE canonicalize(IF path = <<"/">> \/ path = <<>> THEN <<"/","i","n","d","e","x",".","h","t","m","l">> ELSE path)

\* lines 303-308: the traversal patterns and the root path
checkTraversal(path) ==
    IF contains(path, <<".", ".">>) \/ startswith(path, <<"/", "/">>) THEN None
    ELSE canonicalize(IF path = <<"/">> \/ path = <<>> THEN <<"/","i","n","d","e","x",".","h","t","m","l">> ELSE path)

\* validate_path(path): None, or the canonical path inside the resources
\* directory
validate_path(path) == checkTraversal(split(path, <<"?">>)[1])

\* os.path.basename(path)
basename(path) == SubSeq(path, rfind(path, <<"/">>) + 1, Len(path))

\* os.path.splitext(path)[1]: the extension, from the last dot of the last
\* component, empty when that component has no dot after a non-dot character
splitext_ext(path) ==
    LET sepIndex == rfind(path, <<"/">>)
        dotIndex == rfind(path, <<".">>)
    IN  IF dotIndex > sepIndex
           /\ \E k \in (sepIndex + 1)..(dotIndex - 1) : path[k] # "."
        THEN SubSeq(path, dotIndex, Len(path))
        ELSE <<>>

\* CONTENT_TYPES
CONTENT_TYPES ==
    (<<".","h","t","m","l">> :> <<"t","e","x","t","/","h","t","m","l",";"," ","c","h","a","r","s","e","t","=",
       "u","t","f","-","8">>) @@
    (<<".","t","x","t">> :> <<"a","p","p","l","i","c","a","t","i","o","n","/","o","c","t","e","t","-","s",
       "t","r","e","a","m">>) @@
    (<<".","p","n","g">> :> <<"a","p","p","l","i","c","a","t","i","o","n","/","o","c","t","e","t","-","s",
       "t","r","e","a","m">>) @@
    (<<".","j","p","g">> :> <<"a","p","p","l","i","c","a","t","i","o","n","/","o","c","t","e","t","-","s",
       "t","r","e","a","m">>) @@
    (<<".","j","p","e","g">> :> <<"a","p","p","l","i","c","a","t","i","o","n","/","o","c","t","e","t","-","s",
       "t","r","e","a","m">>)

\* STATUS_CODES
STATUS_CODES ==
    (200 :> <<"O","K">>) @@ (201 :> <<"C","r","e","a","t","e","d">>) @@ (400 :> <<"B","a","d"," ","R","e","q","u","e","s","t">>) @@
    (403 :> <<"F","o","r","b","i","d","d","e","n">>) @@ (404 :> <<"N","o","t"," ","F","o","u","n","d">>) @@
    (405 :> <<"M","e","t","h","o","d"," ","N","o","t"," ","A","l","l","o","w","e","d">>) @@ (415 :> <<"U","n","s","u","p","p","o","r","t","e","d"," ","M","e","d","i","a"," ","T",
       "y","p","e">>) @@
    (500 :> <<"I","n","t","e","r","n","a","l"," ","S","e","r","v","e","r"," ","E","r","r",
       "o","r">>) @@ (503 :> <<"S","e","r","v","i","c","e"," ","U","n","a","v","a","i","l","a","b","l","e">>)

\* The files under the served directory: path |-> [kind, readable, data].
\* data is the file's bytes (as integers); an unreadable file makes open()
\* raise.
FileSystem ==
    (<<"/","s","r","v","/","r","e","s","o","u","r","c","e","s","/","i","n","d","e",
       "x",".","h","t","m","l">> :>
        [kind |-> "file", readable |-> TRUE, data |-> <<60, 104, 105, 62, 10>>]) @@
    (<<"/","s","r","v","/","r","e","s","o","u","r","c","e","s","/","a",".","t","x",
       "t">> :>
        [kind |-> "file", readable |-> TRUE, data |-> <<0, 255, 13, 10>>]) @@
    (<<"/","s","r","v","/","r","e","s","o","u","r","c","e","s","/","s","t","y","l",
       "e",".","c","s","s">> :>
        [kind |-> "file", readable |-> TRUE, data |-> <<97>>]) @@
    (<<"/","s","r","v","/","r","e","s","o","u","r","c","e","s","/","s","e","c","r",
       "e","t",".","t","x","t">> :>
        [kind |-> "file", readable |-> FALSE, data |-> <<>>]) @@
    (<<"/","s","r","v","/","r","e","s","o","u","r","c","e","s","/","u","p","l","o",
       "a","d","s">> :>
        [kind |-> "dir", readable |-> TRUE, data |-> <<>>])

\* os.path.isfile(path)
isfile(path) == path \in DOMAIN FileSystem /\ FileSystem[path].kind = "file"

(***************************************************************************)
(* Responses: send_error, send_response, handle_get, handle_post           *)
(***************************************************************************)

\* get_http_date(): the current time in RFC 7231 format (one sample instant)
get_http_date == <<"T","u","e",","," ","0","3"," ","N","o","v"," ","2","0","2","6"," ","1","6",
       ":","2","1",":","0","0"," ","G","M","T">>

kConnectionHdr == <<"C","o","n","n","e","c","t","i","o","n">>

\* the value of the header `key` in an ordered header list, None if absent
headerValue(headers, key) ==
    IF \E i \in DOMAIN headers : headers[i][1] = key
    THEN headers[CHOOSE i \in DOMAIN headers : headers[i][1] = key][2]
    ELSE None

\* the f-string error_body of send_error
error_body(status_code, message) ==
    <<"<","!","D","O","C","T","Y","P","E"," ","h","t","m","l",">","\n","<","h","t",
       "m","l",">","\n","<","h","e","a","d",">","<","t","i","t","l","e",">">> \o str(status_code) \o <<" ">> \o message
    \o <<"<","/","t","i","t","l","e",">","<","/","h","e","a","d",">","\n","<","b","o",
       "d","y",">","\n","<","h","1",">">> \o str(status_code) \o <<" ">> \o message
    \o <<"<","/","h","1",">","\n","<","p",">","T","h","e"," ","s","e","r","v","e","r",
       " ","e","n","c","o","u","n","t","e","r","e","d"," ","a","n"," ","e","r","r",
       "o","r"," ","p","r","o","c","e","s","s","i","n","g"," ","y","o","u","r"," ",
       "r","e","q","u","e","s","t",".","<","/","p",">","\n","<","/","b","o","d","y",
       ">","\n","<","/","h","t","m","l",">">>

\* lines 452-463 of send_error: the headers, and the call of send_response
errorResponse(status_code, body, keep_alive) ==
    [status_code |-> status_code,
     headers |-> << <<<<"C","o","n","t","e","n","t","-","T","y","p","e">>, <<"t","e","x","t","/","h","t","m","l",";"," ","c","h","a","r","s","e","t","=",
       "u","t","f","-","8">>>>,
                    <<<<"C","o","n","t","e","n","t","-","L","e","n","g","t","h">>, str(Len(body))>>,
                    <<<<"D","a","t","e">>, get_http_date>>,
                    <<<<"S","e","r","v","e","r">>, <<"M","u","l","t","i","-","t","h","r","e","a","d","e","d"," ","H","T","T","P",
       " ","S","e","r","v","e","r">>>>,
                    <<kConnectionHdr, IF keep_alive THEN kKeepAlive ELSE kClose>> >>
                 \o (IF status_code = 503 THEN << <<<<"R","e","t","r","y","-","A","f","t","e","r">>, <<"1","0">>>> >> ELSE <<>>),
     body |-> body]

\* send_error(client_socket, status_code, message, thread_id, keep_alive):
\* the (status_code, headers, body) it hands to send_response
send_error(status_code, message, keep_alive) ==
    errorResponse(status_code, error_body(status_code, message), keep_alive)

\* lines 420-422: one "Key: Value\r\n" per header, joined
RECURSIVE header_lines(_)
header_lines(headers) ==
    IF headers = <<>> THEN <<>>
    ELSE headers[1][1] \o <<":", " ">> \o headers[1][2] \o CRLF
         \o header_lines(Tail(headers))

\* lines 415-436 of send_response, the statements after its return: status
\* line, header lines, an empty line and the body, given to sendall
send_response_unreached(wire, status_code, headers, body) ==
    wire \o <<"H", "T", "T", "P", "/", "1", ".", "1", " ">> \o str(status_code) \o <<" ">>
         \o dictGet(STATUS_CODES, status_code, <<"U", "n", "k", "n", "o", "w", "n">>)
         \o CRLF \o header_lines(headers) \o CRLF \o body

\* send_response(client_socket, status_code, headers, body): what the socket
\* has been sent after the call, given what it had been sent before.  The
\* method returns on its first statement (line 413), before the status line
\* is built or sendall is reached.
send_response(wire, status_code, headers, body) == wire

\* lines 383-389: the optional headers of a 200 response
okHeaders(content_type, file_size, filename, keep_alive) ==
    << <<<<"C","o","n","t","e","n","t","-","T","y","p","e">>, content_type>>,
       <<<<"C","o","n","t","e","n","t","-","L","e","n","g","t","h">>, str(file_size)>>,
       <<<<"D","a","t","e">>, get_http_date>>,
       <<<<"S","e","r","v","e","r">>, <<"M","u","l","t","i","-","t","h","r","e","a","d","e","d"," ","H","T","T","P",
       " ","S","e","r","v","e","r">>>>,
       <<kConnectionHdr, IF keep_alive THEN kKeepAlive ELSE kClose>> >>
    \o (IF keep_alive THEN << <<<<"K","e","e","p","-","A","l","i","v","e">>, <<"t","i","m","e","o","u","t","=","3","0",","," ","m","a","x","=","1","0","0">>>> >> ELSE <<>>)
    \o (IF content_type = <<"a","p","p","l","i","c","a","t","i","o","n","/","o","c","t","e","t","-","s",
       "t","r","e","a","m">>
        THEN << <<<<"C","o","n","t","e","n","t","-","D","i","s","p","o","s","i","t","i","o","n">>,
                  <<"a","t","t","a","c","h","m","e","n","t",";"," ","f","i","l","e","n","a","m",
       "e","=","\"">> \o filename \o <<"\"">> >> >>
        ELSE <<>>)

\* the response of handle_get by its outcome; the error responses are the
\* send_error calls of lines 346, 352, 362 and 400
getResponse(code, file, ext, filename, keep_alive) ==
    IF code = 200
    THEN [status_code |-> 200,
          headers |-> okHeaders(CONTENT_TYPES[ext], Len(file.data), filename, keep_alive),
          body |-> file.data]
    ELSE send_error(code, STATUS_CODES[code], keep_alive)

\* lines 356-400: the extension test and the read of an existing file
serveFile(file_path, ext, keep_alive) ==
    getResponse(IF ext \notin DOMAIN CONTENT_TYPES THEN 415
                ELSE IF ~FileSystem[file_path].readable THEN 500
                ELSE 200,
                FileSystem[file_path], ext, basename(file_path), keep_alive)

\* lines 344-357: the resolved path must be allowed and name a file
servePath(file_path, keep_alive) ==
    IF file_path = None THEN getResponse(403, None, None, None, keep_alive)
    ELSE IF ~isfile(file_path) THEN getResponse(404, None, None, None, keep_alive)
    ELSE serveFile(file_path, lower(splitext_ext(file_path)), keep_alive)

\* handle_get(client_socket, path, headers, thread_id, keep_alive): the
\* sequence of send_response calls it makes
handle_get(path, keep_alive) == <<servePath(validate_path(path), keep_alive)>>

\* handle_post(client_socket, path, headers, body, thread_id, keep_alive):
\* the sequence of send_response calls it makes (the method only returns)
handle_post(path, headers, body, keep_alive) == <<>>

(***************************************************************************)
(* One iteration of the request loop of handle_client, after recv has      *)
(* returned data (lines 166-208)                                           *)
(***************************************************************************)

\* a byte that is no part of a valid UTF-8 sequence
BadByte == "0xFF"

IsDecodable(b) == b # BadByte

\* request_data.decode('utf-8', errors='ignore') on ASCII bytes and BadByte
decode(request_data) == SelectSeq(request_data, IsDecodable)

\* lines 196-208: route by method and decide whether the loop goes on
route(method, path, headers, body, keep_alive) ==
    [calls |-> IF method = kGET THEN handle_get(path, keep_alive)
               ELSE IF method = kPOST THEN handle_post(path, headers, body, keep_alive)
               ELSE <<send_error(405, STATUS_CODES[405], keep_alive)>>,
     brk |-> ~keep_alive, stage |-> "route", keep_alive |-> keep_alive,
     host |-> headers[kHost]]

\* lines 180-193: Host validation, then the keep-alive decision
checkHost(host, port, method, path, version, headers, body) ==
    IF ~validate_host(headers, host, port)
    THEN [calls |-> IF kHost \notin DOMAIN headers
                    THEN <<send_error(400, STATUS_CODES[400], FALSE)>>
                    ELSE <<send_error(403, STATUS_CODES[403], FALSE)>>,
          brk |-> TRUE, stage |-> "host", keep_alive |-> FALSE,
          host |-> dictGet(headers, kHost, None)]
    ELSE route(method, path, headers, body, should_keep_alive(version, headers))

\* lines 172-176: a failed parse is answered 400 and ends the loop
checkParsed(host, port, parsed_request) ==
    IF parsed_request = None
    THEN [calls |-> <<send_error(400, STATUS_CODES[400], FALSE)>>, brk |-> TRUE,
          stage |-> "parse", keep_alive |-> FALSE, host |-> None]
    ELSE checkHost(host, port, parsed_request[1], parsed_request[2], parsed_request[3],
                   parsed_request[4], parsed_request[5])

\* The outcome of the loop body for received bytes request_data on a server
\* bound to (host, port):
\*   calls       the send_response calls made, in order
\*   brk         TRUE when the iteration ends in `break`
\*   stage       where the iteration ended: "parse", "host" or "route"
\*   keep_alive  the value of keep_alive (FALSE when it was never computed)
\*   host        the request's Host header value, None when it has none
serve(host, port, request_data) ==
    checkParsed(host, port, parse_request(decode(request_data)))

(***************************************************************************)
(* What clients send                                                       *)
(***************************************************************************)

\* the bytes of a request: request line, header lines, blank line
Request(method, path, version, headerLines) ==
    join(CRLF, <<method \o <<" ">> \o path \o <<" ">> \o version>> \o headerLines
               \o << <<>>, <<>> >>)

ReqMethods == {kGET, kPOST, <<"P","U","T">>}
ReqPaths == {<<"/">>, <<"/","m","i","s","s","i","n","g",".","h","t","m","l">>, <<"/","s","t","y","l","e",".","c","s","s">>, <<"/","n","o","f","i","l","e",".","c","s","s">>,
             <<"/",".",".","/","e","t","c","/","p","a","s","s","w","d">>, <<"/","s","e","c","r","e","t",".","t","x","t">>, <<"/","a",".","t","x","t">>}
ReqVersions == {HTTP11, <<"H","T","T","P","/","1",".","0">>}
ReqHostLines == { <<>>, << <<"H","o","s","t",":">> >>, <<<<"H","o","s","t",":"," ","1","2","7",".","0",".","0",".","1",":","8","0","8",
       "0">>>>, <<<<"H","o","s","t",":"," ","l","o","c","a","l","h","o","s","t">>>>,
                  <<<<"H","o","s","t",":"," ","e","v","i","l",".","c","o","m">>>>, <<<<"H","O","S","T",":"," "," ","0",".","0",".","0",".","0",":","8","0"," ">>>> }
ReqConnLines == { <<>>, <<<<"C","o","n","n","e","c","t","i","o","n",":"," ","c","l","o","s","e">>>>, <<<<"C","o","n","n","e","c","t","i","o","n",":"," ","K","e","e","p","-","A","l",
       "i","v","e">>>>,
                  <<<<"c","o","n","n","e","c","t","i","o","n",":"," ","k","e","e","p","-","a","l",
       "i","v","e">>>> }

\* requests whose first line has no three tokens, and one with an
\* undecodable byte in front of a well-formed request
OddRequests ==
    { <<"G","E","T"," ","/">> \o CRLF \o CRLF,
      CRLF,
      <<BadByte>> \o Request(kGET, <<"/">>, HTTP11, <<<<"H","o","s","t",":"," ","l","o","c","a","l","h","o","s","t",":","8","0","8",
       "0">>>>) }

\* every request a client sends in the session scenarios
AllRequests ==
    { Request(m, p, v, h \o k) :
        m \in ReqMethods, p \in ReqPaths, v \in ReqVersions,
        h \in ReqHostLines, k \in ReqConnLines } \cup OddRequests

\* the requests a client sends in the dispatcher scenarios
FewRequests ==
    { Request(kGET, <<"/">>, HTTP11, <<<<"H","o","s","t",":"," ","1","2","7",".","0",".","0",".","1",":","8","0","8",
       "0">>>>),
      Request(kGET, <<"/">>, <<"H","T","T","P","/","1",".","0">>, <<<<"H","o","s","t",":"," ","1","2","7",".","0",".","0",".","1",":","8","0","8",
       "0">>>>),
      <<"G","E","T"," ","/">> \o CRLF \o CRLF }

\* the (host, port) pairs a server is started with
DefaultConfig == <<kLoopback, 8080>>
Configs == { DefaultConfig, <<<<"0",".","0",".","0",".","0">>, 80>> }

\* what the session loop keeps of one iteration's outcome:
\*   status      status code of the response handed to send_response, 0 if none
\*   n           how many responses the iteration handed to send_response
\*   conn        the Connection header of that response, None if none
\*   brk, stage, keep_alive, host   as in serve
Summary(o) ==
    [status |-> IF o.calls = <<>> THEN 0 ELSE o.calls[Len(o.calls)].status_code,
     n |-> Len(o.calls),
     conn |-> IF o.calls = <<>> THEN None
              ELSE headerValue(o.calls[Len(o.calls)].headers, kConnectionHdr),
     brk |-> o.brk, stage |-> o.stage, keep_alive |-> o.keep_alive, host |-> o.host]

\* all send_response calls of one iteration applied to the socket
RECURSIVE sendAll(_, _)
sendAll(wire, calls) ==
    IF calls = <<>> THEN wire
    ELSE sendAll(send_response(wire, calls[1].status_code, calls[1].headers,
                               calls[1].body),
                 Tail(calls))

\* the outcome of one iteration as the state machine records it: the
\* summary, and what the iteration's calls add to an empty socket
EffectOf(o) == [sum |-> Summary(o), sent |-> sendAll(<<>>, o.calls)]

Effect(config, request_data) == EffectOf(serve(config[1], config[2], request_data))

\* the distinct outcomes of the requests of a set on a server
Effects(config, requests) == {Effect(config, r) : r \in requests}

(***************************************************************************)
(* The server: accept loop, dispatcher, workers                            *)
(***************************************************************************)

\* how many connections arrive / how many requests one client sends, in the
\* dispatcher scenarios and in the session scenarios
NumConns == 3
MaxThreads == 2
ClientReqs == 1
SessionClientReqs == 101

\* connections and pool sizes of the scenarios checked for progress
LiveConns == 2
LiveThreads == 1

\* max_requests of handle_client
max_requests == 100

VARIABLES
    max_threads,        \* self.max_threads (and the pool's max_workers)
    host,               \* self.host
    port,               \* self.port
    env,                \* the scenario: [conns, reqs, effects]
    mainpc,             \* where the main thread is in start()
    hand,               \* the connection accept() returned (client_socket), 0 if none
    accepted,           \* how many connections accept() has returned
    lock,               \* self.lock: <<"free">>, <<"main">> or <<"worker", c>>
    shutdown,           \* the pool's _shutdown flag (thread_pool.shutdown called)
    active_threads,     \* self.active_threads
    connection_queue,   \* self.connection_queue, oldest first
    pc,                 \* per connection: where the task running its wrapper is
    sock,               \* per connection: "none", "open" or "closed"
    request_count,      \* per connection: request_count of handle_client
    last,               \* per connection: the last iteration's Summary, what it wrote
                        \* to the socket (sent) and what followed it
    wire,               \* per connection: what has been written to the socket
    held,               \* per connection: queued_socket its wrapper holds, 0 if none
    exit,               \* per connection: how its running task left the request loop
    released,           \* per connection: how often its wrapper ran lines 129-130
    submitted,          \* the connections thread_pool.submit accepted a task for
    putlog,             \* the connections put on connection_queue, in order
    dropped,            \* the connections taken off the queue whose submit raised
    fin,                \* input of a pure function under check
    fout                \* its result: <<>> before it is applied, then <<result>>

dispatcherVars == <<mainpc, hand, accepted, lock, shutdown, active_threads,
                    connection_queue, held, released, submitted, putlog, dropped>>
sessionVars == <<pc, sock, request_count, last, wire, exit>>
configVars == <<max_threads, host, port, env>>
fnVars == <<fin, fout>>
vars == <<configVars, dispatcherVars, sessionVars, fnVars>>

Conns == 1..env.conns

Free == <<"free">>
MainThread == <<"main">>
Worker(c) == <<"worker", c>>

\* `last` before any request was handled
NoRequest ==
    [status |-> 0, n |-> 0, conn |-> None, brk |-> FALSE, stage |-> "none",
     keep_alive |-> FALSE, host |-> None, followed |-> "none", sent |-> <<>>]

\* HTTPServer.__init__, for a scenario with `conns` connections whose
\* clients send at most `reqs` requests each, drawn from `requests`
InitServer(threads, config, conns, reqs, requests) ==
    /\ max_threads = threads
    /\ host = config[1]
    /\ port = config[2]
    /\ env = [conns |-> conns, reqs |-> reqs, effects |-> Effects(config, requests)]
    /\ mainpc = "accept"
    /\ hand = 0
    /\ accepted = 0
    /\ lock = Free
    /\ shutdown = FALSE
    /\ active_threads = 0
    /\ connection_queue = <<>>
    /\ pc = [c \in 1..conns |-> "none"]
    /\ sock = [c \in 1..conns |-> "none"]
    /\ request_count = [c \in 1..conns |-> 0]
    /\ last = [c \in 1..conns |-> NoRequest]
    /\ wire = [c \in 1..conns |-> <<>>]
    /\ held = [c \in 1..conns |-> 0]
    /\ exit = [c \in 1..conns |-> "none"]
    /\ released = [c \in 1..conns |-> 0]
    /\ submitted = {}
    /\ putlog = <<>>
    /\ dropped = {}

\* the dispatcher scenarios: a burst of NumConns connections on a pool of
\* 1..MaxThreads workers
DispatchInit ==
    \E threads \in 1..MaxThreads :
        InitServer(threads, DefaultConfig, NumConns, ClientReqs, FewRequests)

\* the session scenarios: one connection on a pool of one worker, whose
\* client sends up to SessionClientReqs requests drawn from AllRequests
SessionInit ==
    \E config \in Configs :
        InitServer(1, config, 1, SessionClientReqs, AllRequests)

Init ==
    /\ DispatchInit \/ SessionInit
    /\ fin = <<>>
    /\ fout = <<>>

(***************************************************************************)
(* start(): the accept loop (lines 88-118)                                 *)
(***************************************************************************)

\* line 90: accept() returns a new connection
Accept ==
    /\ mainpc = "accept"
    /\ accepted < env.conns
    /\ accepted' = accepted + 1
    /\ hand' = accepted + 1
    /\ sock' = [sock EXCEPT ![accepted + 1] = "open"]
    /\ mainpc' = "lock"
    /\ UNCHANGED <<configVars, lock, shutdown, active_threads, connection_queue, held,
                   released, submitted, putlog, dropped, pc, request_count, last, wire,
                   exit, fnVars>>

\* lines 107-109, 115-118: KeyboardInterrupt while blocked in accept(); the
\* loop is left, the server socket closed and thread_pool.shutdown(wait=True)
\* begins
Interrupt ==
    /\ mainpc = "accept"
    /\ mainpc' = "joining"
    /\ shutdown' = TRUE
    /\ UNCHANGED <<configVars, hand, accepted, lock, active_threads, connection_queue,
                   held, released, submitted, putlog, dropped, sessionVars, fnVars>>

\* line 93: with self.lock
MainAcquire ==
    /\ mainpc = "lock"
    /\ lock = Free
    /\ lock' = MainThread
    /\ mainpc' = "locked"
    /\ UNCHANGED <<configVars, hand, accepted, shutdown, active_threads,
                   connection_queue, held, released, submitted, putlog, dropped,
                   sessionVars, fnVars>>

\* the admission test off by one: a slot is handed out when the pool is full
pool_has_room_full == active_threads <= max_threads

\* the admission test with one slot kept in reserve
pool_has_room_reserve == active_threads < max_threads - 1

\* line 94: the admission test
pool_has_room == active_threads < max_threads

\* lines 94-101: a free slot; count it and submit the wrapper to the pool
Submit ==
    /\ mainpc = "locked"
    /\ pool_has_room
    /\ active_threads' = active_threads + 1
    /\ pc' = [pc EXCEPT ![hand] = "pending"]
    /\ submitted' = submitted \cup {hand}
    /\ lock' = Free
    /\ hand' = 0
    /\ mainpc' = "accept"
    /\ UNCHANGED <<configVars, accepted, shutdown, connection_queue, held, released,
                   putlog, dropped, sock, request_count, last, wire, exit, fnVars>>

\* lines 102-105: the pool is saturated; queue the connection
Enqueue ==
    /\ mainpc = "locked"
    /\ ~pool_has_room
    /\ connection_queue' = Append(connection_queue, hand)
    /\ putlog' = Append(putlog, hand)
    /\ lock' = Free
    /\ hand' = 0
    /\ mainpc' = "accept"
    /\ UNCHANGED <<configVars, accepted, shutdown, active_threads, held, released,
                   submitted, dropped, sessionVars, fnVars>>

\* line 118: thread_pool.shutdown(wait=True) returns once every task of the
\* pool has ended
MainJoin ==
    /\ mainpc = "joining"
    /\ \A c \in Conns : pc[c] \in {"none", "done"}
    /\ mainpc' = "exited"
    /\ UNCHANGED <<configVars, hand, accepted, lock, shutdown, active_threads,
                   connection_queue, held, released, submitted, putlog, dropped,
                   sessionVars, fnVars>>

(***************************************************************************)
(* handle_client (lines 145-219), run by a pool thread                     *)
(***************************************************************************)

\* the tasks a pool thread is running
Running == {c \in Conns : pc[c] \in {"loop", "recv", "finally", "release", "locked",
                                     "resubmit"}}

\* A pool thread takes the pending task of connection c and calls
\* handle_client_wrapper, which calls handle_client: lines 148-155.  The
\* pool has max_workers = max_threads threads.
StartWorker(c) ==
    /\ pc[c] = "pending"
    /\ Cardinality(Running) < max_threads
    /\ pc' = [pc EXCEPT ![c] = "loop"]
    /\ request_count' = [request_count EXCEPT ![c] = 0]
    /\ UNCHANGED <<configVars, dispatcherVars, sock, last, wire, exit, fnVars>>

\* the loop condition off by one
loop_continues_inclusive(c) == request_count[c] <= max_requests

\* line 158: the loop condition
loop_continues(c) == request_count[c] < max_requests

\* what followed the last response, once it is decided
Followed(c, what) ==
    [last EXCEPT ![c].followed = IF @ = "pending" THEN what ELSE @]

\* line 158, condition true: go on to recv
LoopEnter(c) ==
    /\ pc[c] = "loop"
    /\ loop_continues(c)
    /\ pc' = [pc EXCEPT ![c] = "recv"]
    /\ last' = Followed(c, "read")
    /\ UNCHANGED <<configVars, dispatcherVars, sock, request_count, wire, exit, fnVars>>

\* line 158, condition false: the loop ends
LoopExit(c) ==
    /\ pc[c] = "loop"
    /\ ~loop_continues(c)
    /\ pc' = [pc EXCEPT ![c] = "finally"]
    /\ exit' = [exit EXCEPT ![c] = "max_requests"]
    /\ last' = Followed(c, "closed")
    /\ UNCHANGED <<configVars, dispatcherVars, sock, request_count, wire, fnVars>>

\* lines 161-164: recv returns b'' (the peer closed)
RecvEmpty(c) ==
    /\ pc[c] = "recv"
    /\ pc' = [pc EXCEPT ![c] = "finally"]
    /\ exit' = [exit EXCEPT ![c] = "peer_closed"]
    /\ UNCHANGED <<configVars, dispatcherVars, sock, request_count, last, wire, fnVars>>

\* a timed-out read that is retried instead of ending the session
RecvTimeoutRetries(c) ==
    /\ pc[c] = "recv"
    /\ pc' = [pc EXCEPT ![c] = "loop"]
    /\ exit' = [exit EXCEPT ![c] = "timeout"]
    /\ UNCHANGED <<configVars, dispatcherVars, sock, request_count, last, wire, fnVars>>

\* lines 161, 210-212: recv raises socket.timeout
RecvTimeout(c) ==
    /\ pc[c] = "recv"
    /\ pc' = [pc EXCEPT ![c] = "finally"]
    /\ exit' = [exit EXCEPT ![c] = "timeout"]
    /\ UNCHANGED <<configVars, dispatcherVars, sock, request_count, last, wire, fnVars>>

\* an exception that leaves handle_client without passing its finally block
RecvErrorSkipsFinally(c) ==
    /\ pc[c] = "recv"
    /\ pc' = [pc EXCEPT ![c] = "release"]
    /\ exit' = [exit EXCEPT ![c] = "error"]
    /\ UNCHANGED <<configVars, dispatcherVars, sock, request_count, last, wire, fnVars>>

\* lines 161, 213-215: recv raises another exception
RecvError(c) ==
    /\ pc[c] = "recv"
    /\ pc' = [pc EXCEPT ![c] = "finally"]
    /\ exit' = [exit EXCEPT ![c] = "error"]
    /\ UNCHANGED <<configVars, dispatcherVars, sock, request_count, last, wire, fnVars>>

\* lines 204-206: leave the loop after an iteration that reached the end
break_after(e) == e.sum.brk

\* lines 161-208: recv returns a request; it is counted, parsed, validated,
\* routed and answered
HandleRequest(c) ==
    /\ pc[c] = "recv"
    /\ request_count[c] < env.reqs
    /\ \E e \in env.effects :
          /\ request_count' = [request_count EXCEPT ![c] = @ + 1]
          /\ wire' = [wire EXCEPT ![c] = @ \o e.sent]
          /\ IF break_after(e)
             THEN /\ pc' = [pc EXCEPT ![c] = "finally"]
                  /\ exit' = [exit EXCEPT ![c] = "break"]
                  /\ last' = [last EXCEPT ![c] =
                                 [status |-> e.sum.status, n |-> e.sum.n,
                                  conn |-> e.sum.conn, brk |-> e.sum.brk,
                                  stage |-> e.sum.stage,
                                  keep_alive |-> e.sum.keep_alive,
                                  host |-> e.sum.host, followed |-> "closed",
                                  sent |-> e.sent]]
             ELSE /\ pc' = [pc EXCEPT ![c] = "loop"]
                  /\ exit' = exit
                  /\ last' = [last EXCEPT ![c] =
                                 [status |-> e.sum.status, n |-> e.sum.n,
                                  conn |-> e.sum.conn, brk |-> e.sum.brk,
                                  stage |-> e.sum.stage,
                                  keep_alive |-> e.sum.keep_alive,
                                  host |-> e.sum.host, followed |-> "pending",
                                  sent |-> e.sent]]
    /\ UNCHANGED <<configVars, dispatcherVars, sock, fnVars>>

\* lines 217-219: the finally block of handle_client closes the socket and
\* handle_client returns (its locals request_count and keep_alive are gone);
\* control is in the wrapper's finally block
CloseSocket(c) ==
    /\ pc[c] = "finally"
    /\ sock' = [sock EXCEPT ![c] = "closed"]
    /\ pc' = [pc EXCEPT ![c] = "release"]
    /\ request_count' = [request_count EXCEPT ![c] = 0]
    /\ last' = [last EXCEPT ![c] = NoRequest]
    /\ UNCHANGED <<configVars, dispatcherVars, wire, exit, fnVars>>

(***************************************************************************)
(* handle_client_wrapper: the release step (lines 127-141)                 *)
(***************************************************************************)

\* lines 129-130: with self.lock: self.active_threads -= 1
ReleaseAcquire(c) ==
    /\ pc[c] = "release"
    /\ lock = Free
    /\ lock' = Worker(c)
    /\ active_threads' = active_threads - 1
    /\ released' = [released EXCEPT ![c] = @ + 1]
    /\ pc' = [pc EXCEPT ![c] = "locked"]
    /\ UNCHANGED <<configVars, mainpc, hand, accepted, shutdown, connection_queue, held,
                   submitted, putlog, dropped, sock, request_count, last, wire, exit,
                   fnVars>>

\* a queue that hands out its newest entry
queue_get_newest(q) == [item |-> q[Len(q)], rest |-> SubSeq(q, 1, Len(q) - 1)]

\* a release step that never looks at the queue
queue_waiting_ignored(q) == FALSE

\* a release step that takes the queue for non-empty without looking
queue_waiting_assumed(q) == TRUE

\* line 133: not self.connection_queue.empty()
queue_waiting(q) == q # <<>>

\* line 134: connection_queue.get() on a FIFO Queue: the oldest entry
queue_get(q) == [item |-> Head(q), rest |-> Tail(q)]

\* line 133, queue empty: the with block and the task end
ReleaseEmpty(c) ==
    /\ pc[c] = "locked"
    /\ ~queue_waiting(connection_queue)
    /\ lock' = Free
    /\ pc' = [pc EXCEPT ![c] = "done"]
    /\ exit' = [exit EXCEPT ![c] = "none"]
    /\ UNCHANGED <<configVars, mainpc, hand, accepted, shutdown, active_threads,
                   connection_queue, held, released, submitted, putlog, dropped, sock,
                   request_count, last, wire, fnVars>>

\* lines 133-136: a connection is waiting; take it and count it.  get()
\* blocks while the queue is empty.
ReleaseDequeue(c) ==
    /\ pc[c] = "locked"
    /\ queue_waiting(connection_queue)
    /\ connection_queue # <<>>
    /\ held' = [held EXCEPT ![c] = queue_get(connection_queue).item]
    /\ connection_queue' = queue_get(connection_queue).rest
    /\ active_threads' = active_threads + 1
    /\ pc' = [pc EXCEPT ![c] = "resubmit"]
    /\ UNCHANGED <<configVars, mainpc, hand, accepted, lock, shutdown, released,
                   submitted, putlog, dropped, sock, request_count, last, wire, exit,
                   fnVars>>

\* lines 137-141: thread_pool.submit accepts the wrapper for the dequeued
\* connection; the with block and the task end
ReleaseSubmit(c) ==
    /\ pc[c] = "resubmit"
    /\ ~shutdown
    /\ pc' = [pc EXCEPT ![c] = "done", ![held[c]] = "pending"]
    /\ submitted' = submitted \cup {held[c]}
    /\ held' = [held EXCEPT ![c] = 0]
    /\ lock' = Free
    /\ exit' = [exit EXCEPT ![c] = "none"]
    /\ UNCHANGED <<configVars, mainpc, hand, accepted, shutdown, active_threads,
                   connection_queue, released, putlog, dropped, sock, request_count,
                   last, wire, fnVars>>

\* lines 137-141 after thread_pool.shutdown: submit raises RuntimeError
\* ("cannot schedule new futures after shutdown"); the exception leaves the
\* with block and ends the task.  No code closes the dequeued socket; whether
\* it is closed when its last reference goes is up to the runtime's
\* finalisation.
ReleaseSubmitFails(c) ==
    /\ pc[c] = "resubmit"
    /\ shutdown
    /\ pc' = [pc EXCEPT ![c] = "done"]
    /\ \E s \in {"open", "closed"} : sock' = [sock EXCEPT ![held[c]] = s]
    /\ dropped' = dropped \cup {held[c]}
    /\ held' = [held EXCEPT ![c] = 0]
    /\ lock' = Free
    /\ exit' = [exit EXCEPT ![c] = "none"]
    /\ UNCHANGED <<configVars, mainpc, hand, accepted, shutdown, active_threads,
                   connection_queue, released, submitted, putlog, request_count,
                   last, wire, fnVars>>

(***************************************************************************)
(* Specifications                                                          *)
(***************************************************************************)

Next ==
    \/ Accept
    \/ Interrupt
    \/ MainAcquire
    \/ Submit
    \/ Enqueue
    \/ MainJoin
    \/ \E c \in Conns : StartWorker(c)
    \/ \E c \in Conns : LoopEnter(c)
    \/ \E c \in Conns : LoopExit(c)
    \/ \E c \in Conns : RecvEmpty(c)
    \/ \E c \in Conns : RecvTimeout(c)
    \/ \E c \in Conns : RecvError(c)
    \/ \E c \in Conns : HandleRequest(c)
    \/ \E c \in Conns : CloseSocket(c)
    \/ \E c \in Conns : ReleaseAcquire(c)
    \/ \E c \in Conns : ReleaseEmpty(c)
    \/ \E c \in Conns : ReleaseDequeue(c)
    \/ \E c \in Conns : ReleaseSubmit(c)
    \/ \E c \in Conns : ReleaseSubmitFails(c)

Spec == Init /\ [][Next]_vars

\* the steps of the pool thread that runs the task of connection c
WorkerStep(c) ==
    \/ StartWorker(c)
    \/ LoopEnter(c)
    \/ LoopExit(c)
    \/ RecvEmpty(c)
    \/ RecvTimeout(c)
    \/ RecvError(c)
    \/ HandleRequest(c)
    \/ CloseSocket(c)
    \/ ReleaseAcquire(c)
    \/ ReleaseEmpty(c)
    \/ ReleaseDequeue(c)
    \/ ReleaseSubmit(c)
    \/ ReleaseSubmitFails(c)

\* Scheduling: a thread that can take a step eventually takes one.  The main
\* thread gets the lock and finishes the admission of a connection it has
\* accepted; a pool thread runs its task to the end (recv returns within the
\* 30 s timeout of line 152).  Nothing obliges a client to connect or the
\* operator to interrupt the server.
Fairness ==
    /\ WF_vars(MainAcquire \/ Submit \/ Enqueue \/ MainJoin)
    /\ \A c \in 1..LiveConns : WF_vars(c \in Conns /\ WorkerStep(c))

\* the scenarios checked for progress: a burst of LiveConns connections on a
\* pool of 1..LiveThreads workers, and the session scenarios
LiveInit ==
    /\ \/ \E threads \in 1..LiveThreads :
              InitServer(threads, DefaultConfig, LiveConns, ClientReqs, FewRequests)
       \/ SessionInit
    /\ fin = <<>>
    /\ fout = <<>>

LiveSpec == LiveInit /\ [][Next]_vars /\ Fairness

(***************************************************************************)
(* Properties of the dispatcher                                            *)
(***************************************************************************)

\* C1: the counter of busy workers is never below zero and never above the
\* configured maximum, whatever the interleaving of the accept loop's
\* admissions and the workers' releases.
C1_ActiveThreadsBounded ==
    /\ active_threads >= 0
    /\ active_threads <= max_threads

\* a burst larger than the pool: a connection had to be queued, a worker has
\* already gone through its release step, and the pool is full again
C1_Witness ==
    /\ accepted > max_threads
    /\ putlog # <<>>
    /\ \E c \in Conns : released[c] = 1
    /\ active_threads = max_threads

\* the connection was put on the overflow queue at some time
queued_once(c) == \E i \in DOMAIN putlog : putlog[i] = c

\* the connection went through the admission step of the accept loop
dispatched(c) == c \in submitted \/ queued_once(c)

\* a pool thread has begun to run handle_client for the connection
started(c) == c \in Conns /\ pc[c] \notin {"none", "pending"}

\* C2 as stated: every connection given to the dispatcher is eventually
\* started in a worker.
C2_EveryDispatchedStarted ==
    \A c \in 1..LiveConns : (c \in Conns /\ dispatched(c)) ~> started(c)

\* C2: every connection given to the dispatcher is eventually started in a
\* worker, unless the server began to shut down before the pool accepted a
\* task for it, that is, while it was still waiting in the overflow queue.
C2_DispatchedStartedUnlessShutdown ==
    \A c \in 1..LiveConns :
        (c \in Conns /\ dispatched(c))
            ~> (started(c) \/ (shutdown /\ c \notin submitted))

\* a connection that waited in the overflow queue has been started
C2_Witness ==
    \E c \in Conns : queued_once(c) /\ started(c) /\ ~shutdown

\* where an accepted connection is
InQueue(c) == \E i \in DOMAIN connection_queue : connection_queue[i] = c
InTransit(c) == hand = c \/ \E w \in Conns : held[w] = c
Owned(c) == sock[c] = "open" /\ pc[c] \in {"pending", "loop", "recv", "finally"}
Closed(c) == sock[c] = "closed"

Places(c) ==
    {k \in {"queued", "transit", "owned", "closed"} :
        \/ k = "queued" /\ InQueue(c)
        \/ k = "transit" /\ InTransit(c)
        \/ k = "owned" /\ Owned(c)
        \/ k = "closed" /\ Closed(c)}

\* C3: an accepted connection is in exactly one place: waiting in the queue,
\* in the hands of the thread that is dispatching it, owned by the one worker
\* task submitted for it, or closed; and a connection that has left the queue
\* and is in nobody's hands has had a worker task submitted for it.
C3_NoConnectionLost ==
    \A c \in Conns :
        sock[c] # "none" =>
            /\ Cardinality(Places(c)) = 1
            /\ (queued_once(c) /\ ~InQueue(c) /\ ~InTransit(c)) => c \in submitted

\* C4: connections leave the overflow queue in the order they entered it: if
\* a worker task has been submitted for a connection that was queued, one has
\* been submitted for every connection queued before it.
C4_QueueOrderKept ==
    \A i, j \in DOMAIN putlog :
        (i < j /\ putlog[j] \in submitted) => putlog[i] \in submitted

\* two connections were queued and the first has been handed to the pool
\* while the second still waits
C4_Witness ==
    /\ Len(putlog) >= 2
    /\ putlog[1] \in submitted
    /\ connection_queue # <<>>
    /\ connection_queue[1] = putlog[2]

(***************************************************************************)
(* Properties of the session handler                                       *)
(***************************************************************************)

\* the status line that opens a response with the given code
StatusLineStart(code) == <<"H","T","T","P","/","1",".","1"," ">> \o str(code) \o <<" ">>

\* the last request handled on connection c was answered with one response
\* of the given status, written to the socket
answered(c, code) ==
    /\ last[c].n = 1
    /\ last[c].status = code
    /\ startswith(last[c].sent, StatusLineStart(code))

ErrorStatuses == {400, 403, 404, 405, 415, 500}

\* C5: whenever a request is answered with an error status (400, 403, 404,
\* 405, 415 or 500), exactly one error response is sent and the connection is
\* then closed without another read, whatever the request's version and
\* Connection header.
C5_ErrorsAreTerminal ==
    \A c \in Conns :
        last[c].status \in ErrorStatuses =>
            /\ answered(c, last[c].status)
            /\ last[c].followed # "read"

C7_AtMostMaxRequests ==
    \A c \in Conns :
        /\ request_count[c] <= max_requests
        /\ pc[c] = "recv" => request_count[c] < max_requests

\* the 100th request asked for keep-alive, the client has a 101st to send,
\* and the loop has ended
C7_Witness ==
    \E c \in Conns :
        /\ request_count[c] = max_requests
        /\ env.reqs > max_requests
        /\ last[c].keep_alive
        /\ exit[c] = "max_requests"
        /\ pc[c] = "finally"

\* C8: the Connection header of every response the session handler produces
\* agrees with what follows it: keep-alive when another request is read on
\* the connection, close when the connection is closed.
C8_ConnectionHeaderConsistent ==
    \A c \in Conns :
        last[c].n > 0 =>
            /\ last[c].followed = "read" => last[c].conn = kKeepAlive
            /\ last[c].followed = "closed" => last[c].conn = kClose

\* the Host values the specification lists as accepted
ClaimedHosts ==
    { host \o <<":">> \o str(port), kLocalhost \o <<":">> \o str(port),
      kLoopback \o <<":">> \o str(port) }
    \cup (IF port = 80 THEN {host, kLocalhost, kLoopback} ELSE {})

\* C9: of a parsed request, one without a Host header is answered 400 and
\* the connection closed; one whose Host value is not an accepted value is
\* answered 403 and the connection closed; one whose Host value is accepted
\* goes on to routing.
C9_HostValidated ==
    \A c \in Conns :
        last[c].stage \in {"host", "route"} =>
            /\ last[c].host = None
                  => answered(c, 400) /\ last[c].followed = "closed"
            /\ (last[c].host # None /\ last[c].host \notin ClaimedHosts)
                  => answered(c, 403) /\ last[c].followed = "closed"
            /\ last[c].host \in ClaimedHosts => last[c].stage = "route"

(***************************************************************************)
(* should_keep_alive as a function of its arguments                        *)
(***************************************************************************)

\* the versions and Connection values the function is applied to
KeepAliveVersions ==
    { HTTP11, <<"H","T","T","P","/","1",".","0">>, <<"H","T","T","P","/","2",".","0">>, <<"h","t","t","p","/","1",".","1">>, <<>> }

KeepAliveValues ==
    { kClose, <<"C","l","o","s","e">>, <<"C","L","O","S","E">>, kKeepAlive, <<"K","e","e","p","-","A","l","i","v","e">>, <<"K","E","E","P","-","A","L","I","V","E">>,
      <<>>, <<"u","p","g","r","a","d","e">>, <<"c","l","o","s","e","d">>, <<"k","e","e","p","-","a","l","i","v","e",","," ","c","l","o","s","e">> }

\* header mappings as parse_request builds them (lower-case keys): without a
\* Connection header, with one, and with one next to a Host header
KeepAliveHeaders ==
    { EmptyDict, dictSet(EmptyDict, kHost, kLocalhost) }
    \cup { dictSet(EmptyDict, kConnection, v) : v \in KeepAliveValues }
    \cup { dictSet(dictSet(EmptyDict, kHost, kLocalhost), kConnection, v) :
             v \in KeepAliveValues }

KeepAliveInit ==
    /\ InitServer(1, DefaultConfig, 1, 0, {})
    /\ fin \in KeepAliveVersions \X KeepAliveHeaders
    /\ fout = <<>>

\* the call should_keep_alive(version, headers)
ApplyKeepAlive ==
    /\ fout = <<>>
    /\ fout' = <<should_keep_alive(fin[1], fin[2])>>
    /\ UNCHANGED <<configVars, dispatcherVars, sessionVars, fin>>

KeepAliveSpec == KeepAliveInit /\ [][ApplyKeepAlive]_vars

\* the same token, letter case apart
SameToken(a, b) ==
    /\ Len(a) = Len(b)
    /\ \A i \in 1..Len(a) :
          \/ a[i] = b[i]
          \/ \E k \in 1..Len(LowerCase) : {a[i], b[i]} = {LowerCase[k], UpperCase[k]}

\* the Connection header of a mapping says `token`
ConnectionSays(headers, token) ==
    kConnection \in DOMAIN headers /\ SameToken(headers[kConnection], token)

\* C10: should_keep_alive(version, headers) is true exactly when the version
\* is HTTP/1.1 and the Connection header does not say close, or the version
\* is another one and the Connection header says keep-alive (the header
\* value read without regard to letter case); so HTTP/1.1 without a
\* Connection header gives true and HTTP/1.0 without one gives false.
C10_KeepAlivePolicy ==
    fout # <<>> =>
        fout[1] = (\/ fin[1] = HTTP11 /\ ~ConnectionSays(fin[2], kClose)
                   \/ fin[1] # HTTP11 /\ ConnectionSays(fin[2], kKeepAlive))

\* a version other than HTTP/1.1 whose Connection header says keep-alive
C10_Witness ==
    /\ fin[1] = <<"H","T","T","P","/","1",".","0">>
    /\ kConnection \in DOMAIN fin[2]
    /\ fin[2][kConnection] = <<"K","e","e","p","-","A","l","i","v","e">>
    /\ fout = <<TRUE>>

\* the ways a read fails at transport level
TransportExits == {"peer_closed", "timeout", "error"}

\* the step in which the read of connection c fails at transport level
ReadFails(c) ==
    /\ pc[c] = "recv"
    /\ exit[c] \notin TransportExits
    /\ exit'[c] \in TransportExits

\* C11: a read that times out, returns empty or raises produces no response
\* (no send_response call, nothing written) and takes the session to its
\* closing block; from then on the task never reads again and its socket is
\* closed as soon as the closing block has run.
C11_TransportErrorsClose ==
    /\ [][\A c \in Conns :
             ReadFails(c) => /\ last'[c] = last[c]
                             /\ wire'[c] = wire[c]
                             /\ pc'[c] = "finally"]_vars
    /\ [](\A c \in Conns :
             exit[c] \in TransportExits =>
                 /\ pc[c] \in {"finally", "release", "locked", "resubmit"}
                 /\ pc[c] # "finally" => sock[c] = "closed")

\* a read timed out and the session has closed its socket
C11_Witness ==
    \E c \in Conns :
        /\ exit[c] = "timeout"
        /\ pc[c] = "release"
        /\ sock[c] = "closed"

(***************************************************************************)
(* handle_get as a function of the request path and keep_alive             *)
(***************************************************************************)

GetNames == { <<"i","n","d","e","x">>, <<"a">>, <<"s","t","y","l","e">>, <<"s","e","c","r","e","t">>, <<"u","p","l","o","a","d","s">>, <<"m","i","s","s","i","n","g">> }
GetExts == { <<".","h","t","m","l">>, <<".","t","x","t">>, <<".","c","s","s">>, <<".","p","n","g">>, <<".","T","X","T">>, <<>> }

\* the request paths handle_get is applied to
GetPaths ==
    { <<"/">> \o n \o e : n \in GetNames, e \in GetExts }
    \cup { <<"/">>, <<>>, <<"/","/","e","v","i","l">>, <<"/",".",".","/","e","t","c","/","p","a","s","s","w","d">> }

GetInit ==
    /\ InitServer(1, DefaultConfig, 1, 0, {})
    /\ fin \in GetPaths \X BOOLEAN
    /\ fout = <<>>

\* the call handle_get(client_socket, path, headers, thread_id, keep_alive)
\* on a socket nothing has been written to: the send_response calls it makes
\* and what they write to the socket
ApplyGet ==
    /\ fout = <<>>
    /\ fout' = << [calls |-> handle_get(fin[1], fin[2]),
                   sent |-> sendAll(<<>>, handle_get(fin[1], fin[2]))] >>
    /\ UNCHANGED <<configVars, dispatcherVars, sessionVars, fin>>

GetSpec == GetInit /\ [][ApplyGet]_vars

\* the directory the server serves, as an absolute path
SandboxRoot == Cwd \o <<"/">> \o resources_dir

\* the file a request path of GetPaths names directly under the served
\* directory
NamedFile(path) == SandboxRoot \o path

\* the request path names an existing, readable file with a supported
\* extension
NamesServableFile(path) ==
    /\ NamedFile(path) \in DOMAIN FileSystem
    /\ FileSystem[NamedFile(path)].kind = "file"
    /\ FileSystem[NamedFile(path)].readable
    /\ \E e \in DOMAIN CONTENT_TYPES :
          Len(e) < Len(path) /\ SubSeq(path, Len(path) - Len(e) + 1, Len(path)) = e

\* the bytes written form a 200 response with Content-Length: N and the
\* given body: status line, header lines among which the Content-Length, an
\* empty line, the body
IsOkResponse(sent, data) ==
    /\ Len(sent) > Len(data) + 4
    /\ SubSeq(sent, Len(sent) - Len(data) + 1, Len(sent)) = data
    /\ LET head == SubSeq(sent, 1, Len(sent) - Len(data))
       IN  /\ startswith(head, StatusLineStart(200) \o <<"O", "K">> \o CRLF)
           /\ contains(head, CRLF \o <<"C","o","n","t","e","n","t","-","L","e","n","g","t","h",":"," ">> \o str(Len(data)) \o CRLF)
           /\ find(head, CRLF \o CRLF) = Len(head) - 3

\* C12: a GET for an existing file of N bytes with a supported extension
\* writes to the client socket a 200 response with Content-Length: N whose
\* body is the file's contents, byte for byte.
C12_GetWritesFile ==
    (fout # <<>> /\ NamesServableFile(fin[1])) =>
        IsOkResponse(fout[1].sent, FileSystem[NamedFile(fin[1])].data)

\* handle_get answered with exactly one response of the given status,
\* written to the socket
GetAnswered(code) ==
    /\ Len(fout[1].calls) = 1
    /\ fout[1].calls[1].status_code = code
    /\ startswith(fout[1].sent, StatusLineStart(code))

\* the extension of the path the request resolves to is in the content-type
\* table
ResolvedExtSupported == lower(splitext_ext(validate_path(fin[1]))) \in DOMAIN CONTENT_TYPES

\* C13: a GET whose resolved path has an extension outside the content-type
\* table is answered 415, whether or not such a file exists; a GET whose
\* resolved path has a supported extension and names no existing file is
\* answered 404.
C13_UnsupportedTypeBeforeMissing ==
    (fout # <<>> /\ validate_path(fin[1]) # None) =>
        /\ ~ResolvedExtSupported => GetAnswered(415)
        /\ (ResolvedExtSupported /\ ~isfile(validate_path(fin[1]))) => GetAnswered(404)

\* ---------------------------------------------------------------------
\* validate_path as a function of the raw request path
\* ---------------------------------------------------------------------

\* the longest chain of path segments in a raw request path
PathDepth == 2

PathSegments == { <<>>, <<".">>, <<".",".">>, <<"a",".","t","x","t">>, <<"x",".",".","y">>, <<"r","e","s","o","u","r","c","e","s","2">> }

PathPrefixes == { <<>>, <<"/">>, <<"/","/">> }

PathQueries == { <<>>, <<"?">>, <<"?","a","=",".",".">>, <<"?","/","/","x">> }

\* the raw paths a request line can carry: a prefix, segments joined by '/',
\* an optional query string
RawPaths ==
    { pre \o join(<<"/">>, segs) \o q :
        pre \in PathPrefixes,
        segs \in UNION { [1..n -> PathSegments] : n \in 0..PathDepth },
        q \in PathQueries }

PathInit ==
    /\ InitServer(1, DefaultConfig, 1, 0, {})
    /\ fin \in { <<p>> : p \in RawPaths }
    /\ fout = <<>>

\* the call validate_path(path)
ApplyPath ==
    /\ fout = <<>>
    /\ fout' = << validate_path(fin[1]) >>
    /\ UNCHANGED <<configVars, dispatcherVars, sessionVars, fin>>

PathSpec == PathInit /\ [][ApplyPath]_vars

\* the sandbox root itself or a descendant of it
Inside(p) == p = SandboxRoot \/ startswith(p, SandboxRoot \o <<"/">>)

\* the raw path up to its first '?'
BeforeQuery(raw) ==
    IF find(raw, <<"?">>) = 0 THEN raw ELSE SubSeq(raw, 1, find(raw, <<"?">>) - 1)

endswith(s, suffix) ==
    Len(s) >= Len(suffix) /\ SubSeq(s, Len(s) - Len(suffix) + 1, Len(s)) = suffix

\* the result is Rejected or lies inside the sandbox root, and '/' and the
\* empty path resolve to a path ending in index.html
ConfinedAndRooted ==
    /\ fout[1] = None \/ Inside(fout[1])
    /\ fin[1] \in { <<"/">>, <<>> } => fout[1] # None /\ endswith(fout[1], <<"i","n","d","e","x",".","h","t","m","l">>)

\* C14 as stated: the result of validate_path is Rejected or inside the
\* sandbox root, every raw path containing '..' anywhere or starting with
\* '//' is Rejected, and '/' and the empty path resolve to index.html.
C14_SandboxRawPath ==
    fout # <<>> =>
        /\ ConfinedAndRooted
        /\ (contains(fin[1], <<".", ".">>) \/ startswith(fin[1], <<"/", "/">>)) => fout[1] = None

\* C14 amended: the result of validate_path is Rejected or inside the
\* sandbox root, every raw path that contains '..' before its first '?' or
\* starts with '//' is Rejected, and '/' and the empty path resolve to
\* index.html.
C14_SandboxBeforeQuery ==
    fout # <<>> =>
        /\ ConfinedAndRooted
        /\ (contains(BeforeQuery(fin[1]), <<".", ".">>) \/ startswith(fin[1], <<"/", "/">>)) => fout[1] = None

\* a path with a '..' segment was refused
C14_Witness ==
    /\ fout # <<>>
    /\ fout[1] = None
    /\ contains(BeforeQuery(fin[1]), <<"/", ".", ".">>)
    /\ ~startswith(fin[1], <<"/", "/">>)

\* C15: once shutdown has begun the main thread accepts no connection, and
\* when shutdown has terminated (every worker has run to completion and
\* start() has returned) every accepted connection is closed, whether it was
\* being served, was still queued, or was dequeued by a finishing worker: no
\* connection is left open and unowned.
C15_ShutdownDrainsAndCloses ==
    /\ shutdown => mainpc \in {"joining", "exited"}
    /\ mainpc = "exited" =>
          \A c \in Conns : sock[c] # "none" => /\ sock[c] = "closed"
                                               /\ ~InQueue(c)

\* ---------------------------------------------------------------------
\* framing a response's headers and parsing the header lines again
\* ---------------------------------------------------------------------

\* the most headers a framed mapping holds
NumHeaders == 2

FrameKeys == { <<"H","o","s","t">>, <<"h","o","s","t">>, <<"C","o","n","t","e","n","t","-","T","y","p","e">>, <<"x","-","a">> }

FrameValues == { <<"a">>, <<"t","e","x","t","/","h","t","m","l">>, <<" ","b">>, <<"a",":","b">> }

\* the header dicts handed to send_response, as the key/value pairs in
\* insertion order; a dict holds a key once
FrameHeaders ==
    { h \in UNION { [1..n -> FrameKeys \X FrameValues] : n \in 0..NumHeaders } :
        \A i, j \in DOMAIN h : i # j => h[i][1] # h[j][1] }

FrameInit ==
    /\ InitServer(1, DefaultConfig, 1, 0, {})
    /\ fin \in { <<h>> : h \in FrameHeaders }
    /\ fout = <<>>

\* send_response(client_socket, 200, headers, '') on a socket nothing has
\* been written to, and the header loop of parse_request (lines 242-250) run
\* on the CRLF-separated lines written, from the line after the status line
ApplyFrame ==
    /\ fout = <<>>
    /\ fout' = << parseHeaders(split(send_response(<<>>, 200, fin[1], <<>>), CRLF),
                               2, EmptyDict)[1] >>
    /\ UNCHANGED <<configVars, dispatcherVars, sessionVars, fin>>

FrameSpec == FrameInit /\ [][ApplyFrame]_vars

\* the mapping a list of key/value pairs with distinct keys stands for
Mapping(h) ==
    [ k \in { h[i][1] : i \in DOMAIN h } |->
        (CHOOSE p \in { h[i] : i \in DOMAIN h } : p[1] = k)[2] ]

\* C16: framing a header mapping H as 'Key: Value CRLF' lines and parsing
\* those lines with the request parser's header loop yields a mapping
\* identical to H.
C16_HeaderRoundTrip ==
    fout # <<>> => fout[1] = Mapping(fin[1])

\* ---------------------------------------------------------------------
\* parse_request as a function of the request text
\* ---------------------------------------------------------------------

\* the most header lines of a request text
ParseLines == 2

ParseFirstLines ==
    { <<"G","E","T"," ","/"," ","H","T","T","P","/","1",".","1">>, <<"G","E","T"," ","/">>, <<"G","E","T"," "," ","/"," ","H","T","T","P","/","1",".","1">>, <<>>,
      <<"G","E","T"," ","/"," ","H","T","T","P","/","1",".","1"," ","x">>, <<"A"," ","B"," ","C">> }

ParseHeaderLines ==
    { <<"H","o","s","t",":"," ","a">>, <<"H","O","S","T",":","b">>, <<"n","o","c","o","l","o","n">>, <<" ","X","-","K"," ",":"," ","v",":","w"," ">>, <<":">>, <<"a",":">> }

ParseEndings ==
    { <<>>, CRLF, CRLF \o CRLF, CRLF \o CRLF \o <<"b","o","d","y">>,
      CRLF \o CRLF \o <<"b">> \o CRLF \o CRLF \o <<"c">> }

RECURSIVE withCRLF(_)
withCRLF(ls) == IF ls = <<>> THEN <<>> ELSE CRLF \o ls[1] \o withCRLF(Tail(ls))

\* the decoded request texts: a first line, header lines, an ending
ParseTexts ==
    { f \o withCRLF(ls) \o e :
        f \in ParseFirstLines,
        ls \in UNION { [1..n -> ParseHeaderLines] : n \in 0..ParseLines },
        e \in ParseEndings }

ParseInit ==
    /\ InitServer(1, DefaultConfig, 1, 0, {})
    /\ fin \in { <<t>> : t \in ParseTexts }
    /\ fout = <<>>

\* the call parse_request(request_text)
ApplyParse ==
    /\ fout = <<>>
    /\ fout' = << parse_request(fin[1]) >>
    /\ UNCHANGED <<configVars, dispatcherVars, sessionVars, fin>>

ParseSpec == ParseInit /\ [][ApplyParse]_vars

\* the number of space-separated tokens of a line
Tokens(line) == Cardinality({ i \in DOMAIN line : line[i] = " " }) + 1

\* the header lines of a text: the lines after the first, up to the first
\* empty one
HeaderLinesOf(lines) ==
    { i \in 2..Len(lines) : \A j \in 2..i : lines[j] # <<>> }

WithColon(lines) == { i \in HeaderLinesOf(lines) : find(lines[i], <<":">>) # 0 }

KeyOf(line) == lower(strip(SubSeq(line, 1, find(line, <<":">>) - 1)))

ValueOf(line) == strip(SubSeq(line, find(line, <<":">>) + 1, Len(line)))

\* what follows the blank line of a text, empty when there is none
BodyOf(text) ==
    IF find(text, CRLF \o CRLF) = 0 THEN <<>>
    ELSE SubSeq(text, find(text, CRLF \o CRLF) + 4, Len(text))

\* the headers are those of the lines with a colon, split at the first colon
HeadersFrom(headers, lines) ==
    /\ DOMAIN headers = { KeyOf(lines[i]) : i \in WithColon(lines) }
    /\ \A k \in DOMAIN headers :
          \E i \in WithColon(lines) : KeyOf(lines[i]) = k /\ ValueOf(lines[i]) = headers[k]

\* C17: parse_request returns no request exactly when the first
\* CRLF-delimited line does not split into exactly three space-separated
\* tokens; otherwise the headers come from the lines up to the first empty
\* line, a line without a colon being skipped and a line with a colon split
\* once at its first colon, key lower-cased and trimmed, value trimmed, and
\* the body is everything after the blank line, empty when there is none.
C17_ParseRequest ==
    fout # <<>> =>
        LET lines == split(fin[1], CRLF)
        IN  /\ fout[1] = None <=> Tokens(lines[1]) # 3
            /\ fout[1] # None =>
                  /\ HeadersFrom(fout[1][4], lines)
                  /\ fout[1][5] = BodyOf(fin[1])

\* a request with a line without a colon, a header and a body was parsed
C17_Witness ==
    /\ fout # <<>>
    /\ fout[1] # None
    /\ contains(fin[1], CRLF \o <<"n","o","c","o","l","o","n">> \o CRLF)
    /\ DOMAIN fout[1][4] # {}
    /\ fout[1][5] # <<>>

\* C18: whenever the dispatcher lock is not held, a non-empty overflow queue
\* implies that active_threads equals max_threads, and a connection is put
\* on the queue only when active_threads equals max_threads: a connection
\* waits only while every slot is counted as taken.
C18_WorkConserving ==
    /\ []((lock = Free /\ connection_queue # <<>>) => active_threads = max_threads)
    /\ [][Len(connection_queue') > Len(connection_queue) => active_threads = max_threads]_vars

\* a worker has released its slot and handed it to a queued connection while
\* another connection still waits
C18_Witness ==
    /\ lock = Free
    /\ connection_queue # <<>>
    /\ \E c \in Conns : queued_once(c) /\ c \in submitted

\* the connections handed to the thread pool whose wrapper has not yet
\* executed its release step
InPool == { c \in Conns : c \in submitted /\ released[c] = 0 }

\* C19: whenever the dispatcher lock is not held, active_threads equals the
\* number of connections that have been handed to the thread pool and whose
\* wrapper has not yet executed its release step; the counter never counts a
\* connection for which no worker will run.
C19_SlotAccounting ==
    lock = Free => active_threads = Cardinality(InPool)

\* the thread that holds the dispatcher lock has a step it can take
HolderNotBlocked ==
    /\ lock = MainThread => ENABLED (Submit \/ Enqueue)
    /\ \A c \in Conns :
          lock = Worker(c) =>
              ENABLED (ReleaseEmpty(c) \/ ReleaseDequeue(c) \/ ReleaseSubmit(c)
                         \/ ReleaseSubmitFails(c))

====
